---- MODULE Spec2Model ----
(***************************************************************************)
(* A model of the bank ledger of src/main.py (the Streamlit version, lines *)
(* 187-512): the class-level record list Bank.data, the JSON document      *)
(* data.json, the per-session login state and the page handlers.           *)
(*                                                                         *)
(* Bank.data is modelled as the source documents it: loaded once when the  *)
(* class body runs ("Load on import") and shared by every session of the   *)
(* process afterwards; the "Reload DB" page reads it again on demand.      *)
(*                                                                         *)
(* Text typed into a form is a sequence of one-character strings, so that  *)
(* str.isdigit, len, str.strip and int are computed as Python computes     *)
(* them.  A record is a function from the dictionary keys of the source    *)
(* ("name", ..., "AccountNo.", "balance") to the stored values.            *)
(***************************************************************************)
EXTENDS Integers, Sequences, FiniteSets, TLC

VARIABLES
    data,           \* Bank.data: the in-memory list of account dicts
    disk,           \* data.json: [state: absent | valid | corrupt, doc: JSON array]
    session_state,  \* st.session_state["auth"] of each browser session
    out,            \* what the last script run showed: [op, msg]
    faults,         \* number of failed writes of data.json so far
    runs,           \* number of script runs so far
    threads,        \* script threads of the multi-threaded host (SpecThreads)
    reported        \* net amount of the reported deposits and withdrawals (SpecThreads)

vars == <<data, disk, session_state, out, faults, runs, threads, reported>>

----------------------------------------------------------------------------
(* Bounds of the model *)

\* Bank.data is never allowed to grow beyond this many records.
MaxAccounts == 2

\* No balance is driven above this value.
MaxBalance == 10000

\* At most this many writes of data.json fail in one behaviour.
MaxFaults == 1

\* At most this many script runs (page interactions) in one behaviour.
MaxRuns == 4

\* Each script thread of SpecThreads runs at most this many handlers.
MaxThreadOps == 1

----------------------------------------------------------------------------
(* Python text primitives *)

Digits == {"0", "1", "2", "3", "4", "5", "6", "7", "8", "9"}

DigitValue(c) ==
    CASE c = "0" -> 0 [] c = "1" -> 1 [] c = "2" -> 2 [] c = "3" -> 3
      [] c = "4" -> 4 [] c = "5" -> 5 [] c = "6" -> 6 [] c = "7" -> 7
      [] c = "8" -> 8 [] c = "9" -> 9

DigitChar(d) ==
    CASE d = 0 -> "0" [] d = 1 -> "1" [] d = 2 -> "2" [] d = 3 -> "3"
      [] d = 4 -> "4" [] d = 5 -> "5" [] d = 6 -> "6" [] d = 7 -> "7"
      [] d = 8 -> "8" [] d = 9 -> "9"

\* str.isdigit(): non-empty and every character a digit.
isdigit(s) == Len(s) > 0 /\ \A i \in 1..Len(s) : s[i] \in Digits

\* The value of the first n digits of s.
RECURSIVE IntOfPrefix(_, _)
IntOfPrefix(s, n) == IF n = 0 THEN 0 ELSE 10 * IntOfPrefix(s, n - 1) + DigitValue(s[n])

\* int(s) of a string of digits: leading zeros do not count.
int(s) == IntOfPrefix(s, Len(s))

\* str.strip(): leading and trailing blanks removed.
RECURSIVE lstrip(_)
lstrip(s) == IF Len(s) > 0 /\ s[1] = " " THEN lstrip(Tail(s)) ELSE s

RECURSIVE rstrip(_)
rstrip(s) ==
    IF Len(s) > 0 /\ s[Len(s)] = " " THEN rstrip(SubSeq(s, 1, Len(s) - 1)) ELSE s

strip(s) == lstrip(rstrip(s))

----------------------------------------------------------------------------
(* The JSON document: json.dump writes an int as its decimal digits and a  *)
(* str as a string; json.load reads them back.                             *)

Keys == {"name", "email", "age", "phone", "pin", "AccountNo.", "balance"}

IntKeys == {"age", "phone", "pin", "balance"}

\* The JSON encoder writes an int as str(n).
RECURSIVE IntText(_)
IntText(n) ==
    IF n < 0 THEN <<"-">> \o IntText(0 - n)
    ELSE IF n < 10 THEN <<DigitChar(n)>>
    ELSE Append(IntText(n \div 10), DigitChar(n % 10))

\* A decoder that reads numbers in single precision: seven significant digits.
NumberValue_single(text) ==
    LET n == IF text[1] = "-" THEN 0 - int(Tail(text)) ELSE int(text)
        unit == IF n >= 1000000000 THEN 1000
                ELSE IF n >= 100000000 THEN 100
                ELSE IF n >= 10000000 THEN 10
                ELSE 1
    IN (n \div unit) * unit

\* The JSON decoder reads an optional sign and the digits.
NumberValue(text) == IF text[1] = "-" THEN 0 - int(Tail(text)) ELSE int(text)

JsonValue(k, v) ==
    IF k \in IntKeys THEN [type |-> "number", text |-> IntText(v)]
    ELSE [type |-> "string", text |-> v]

PyValue(j) == IF j.type = "number" THEN NumberValue(j.text) ELSE j.text

\* json.dump(cls.data, fs): a list of objects, keys in insertion order.
json_dump(d) == [i \in 1..Len(d) |-> [k \in Keys |-> JsonValue(k, d[i][k])]]

\* json.load(fs)
json_load(doc) == [i \in 1..Len(doc) |-> [k \in Keys |-> PyValue(doc[i][k])]]

----------------------------------------------------------------------------
(* Inputs *)

Sessions == {"s1", "s2"}

\* Values st.number_input("Amount (<= 10000)", min_value=0, step=1) can return.
Amounts == {0, 5000, 10000, 10001}

\* The per-operation cap of ui_deposit and ui_withdraw.
AmountCap == 10000

\* The minimum age of ui_create_account.
MinAge == 18

\* len(phone) and len(pin) required by ui_create_account.
PhoneLen == 10
PinLen == 4

\* Outputs of generate_account_no: samples of the 12-character strings made of
\* 4 letters and 8 digits, shuffled.  random.choices and random.shuffle may
\* return any of them on any call.
AccountNoSamples ==
    { <<"a", "1", "B", "2", "3", "c", "4", "5", "6", "D", "7", "8">>,
      <<"9", "0", "x", "Y", "1", "1", "z", "2", "W", "3", "4", "5">> }

\* An account number typed at login that no record carries.
UnknownAccountNo == <<"q", "Q", "q", "Q", "0", "0", "0", "0", "0", "0", "0", "0">>

Phone10 == <<"1", "2", "3", "4", "5", "6", "7", "8", "9", "0">>
Phone10Zeros == <<"0", "0", "1", "2", "3", "4", "5", "6", "7", "8">>
Phone8 == <<"1", "2", "3", "4", "5", "6", "7", "8">>
PhoneLetters == <<"5", "5", "5", "x", "2", "3", "4", "5", "6", "7">>

Pin4 == <<"1", "2", "3", "4">>
Pin4Zeros == <<"0", "0", "1", "2">>
Pin2 == <<"1", "2">>
PinLetters == <<"1", "2", "3", "x">>

\* The form of ui_create_account as a user fills it in.
GoodForm ==
    [name |-> <<"A", " ">>, email |-> <<"e">>, age |-> 18, phone |-> Phone10, pin |-> Pin4]

CreateForms ==
    { GoodForm,
      [GoodForm EXCEPT !.phone = Phone10Zeros, !.pin = Pin4Zeros],
      [GoodForm EXCEPT !.name = <<>>],
      [GoodForm EXCEPT !.email = <<>>],
      [GoodForm EXCEPT !.age = 17],
      [GoodForm EXCEPT !.phone = Phone8],
      [GoodForm EXCEPT !.phone = PhoneLetters],
      [GoodForm EXCEPT !.pin = Pin2],
      [GoodForm EXCEPT !.pin = PinLetters] }

\* The form of ui_update_details: every field is left empty or filled in.
\* The forms tried leave all fields empty, fill in one or fill in all.
UpdateFields == {"name", "email", "age", "phone", "pin"}

FilledIn ==
    [name |-> <<"B">>, email |-> <<"f">>, age |-> <<"1", "7">>, phone |-> Phone8, pin |-> Pin2]

UpdateForm(supplied) == [k \in UpdateFields |-> IF k \in supplied THEN FilledIn[k] ELSE <<>>]

UpdateForms ==
    { UpdateForm(S) : S \in { S \in SUBSET UpdateFields :
                                  Cardinality(S) \in {0, 1, 5} } }

\* What is typed into the login form: a number the generator can issue or an
\* unknown one with a numeric pin, no number, or a pin that is not numeric.
LoginForms ==
    ((AccountNoSamples \cup {UnknownAccountNo}) \X {Pin4, Pin4Zeros, Pin2})
        \cup {<<<<>>, Pin4>>, <<UnknownAccountNo, PinLetters>>}

\* st.session_state without an "auth" entry.
None == [acc |-> <<>>, pin |-> -1]

\* Outcomes of update_data: the document is written, open() raises and the file
\* is left as it was, or the write raises after open() has truncated the file.
PersistOutcomes ==
    IF faults < MaxFaults THEN {"written", "open_failed", "write_failed"} ELSE {"written"}

----------------------------------------------------------------------------
(* class Bank *)

\* A handler that forgets the call of update_data.
update_data_skipped(d, outcome) == disk

\* Bank.update_data: the document left on disk.
update_data(d, outcome) ==
    CASE outcome = "written" -> [state |-> "valid", doc |-> json_dump(d)]
      [] outcome = "open_failed" -> disk
      [] outcome = "write_failed" -> [state |-> "corrupt", doc |-> <<>>]

\* Bank.find_user: the position of the first record with this number and pin,
\* 0 for None.
find_user(d, acc_no, pin) ==
    LET M == {i \in 1..Len(d) : d[i]["AccountNo."] = acc_no /\ d[i]["pin"] = pin}
    IN IF M = {} THEN 0 ELSE CHOOSE i \in M : \A j \in M : i <= j

\* Bank.find_by_acc
find_by_acc(d, acc_no) ==
    LET M == {i \in 1..Len(d) : d[i]["AccountNo."] = acc_no}
    IN IF M = {} THEN 0 ELSE CHOOSE i \in M : \A j \in M : i <= j

\* Bank.generate_account_no: one draw, with no look at Bank.data.
generate_account_no == AccountNoSamples

\* The dict literal "info" of ui_create_account.
info(form, acc_no) ==
    [k \in Keys |->
        CASE k = "name" -> strip(form.name)
          [] k = "email" -> strip(form.email)
          [] k = "age" -> form.age
          [] k = "phone" -> int(form.phone)
          [] k = "pin" -> int(form.pin)
          [] k = "AccountNo." -> acc_no
          [] k = "balance" -> 0]

----------------------------------------------------------------------------
(* Helpers (streamlit glue) *)

\* What st.error, st.warning, st.success or an uncaught exception shows.
Show(op, msg) == out' = [op |-> op, msg |-> msg]

\* One script run of one page interaction.
ScriptRun ==
    /\ runs < MaxRuns
    /\ runs' = runs + 1
    /\ UNCHANGED <<threads, reported>>

\* The mutated list is written by Bank.update_data; the success message is
\* shown only if update_data returns, an OSError of open or write propagates.
Commit(d, outcome, op, success) ==
    /\ Show(op, IF outcome = "written" THEN success ELSE "OSError")
    /\ faults' = IF outcome = "written" THEN faults ELSE faults + 1
    /\ data' = d
    /\ disk' = update_data(d, outcome)

\* require_logged_in, then Bank.find_user on the stored pair: the position of
\* the session's record, 0 when the pair matches no record.
SessionUser(s) == find_user(data, session_state[s].acc, session_state[s].pin)

\* require_logged_in stops the run of a session without "auth".
NotLoggedIn(s, op) ==
    /\ session_state[s] = None
    /\ Show(op, "Please login first from the sidebar.")
    /\ UNCHANGED <<data, disk, session_state, faults>>

\* The stale session is told so but "auth" is not popped.
SessionExpired_stays(s, op) ==
    /\ session_state[s] # None
    /\ SessionUser(s) = 0
    /\ Show(op, "Session expired. Please login again.")
    /\ UNCHANGED <<data, disk, session_state, faults>>

\* The stored pair matches no record: the session is logged out.
SessionExpired(s, op) ==
    /\ session_state[s] # None
    /\ SessionUser(s) = 0
    /\ Show(op, "Session expired. Please login again.")
    /\ session_state' = [session_state EXCEPT ![s] = None]
    /\ UNCHANGED <<data, disk, faults>>

\* login_block looking the account number up first and saying so when no
\* record carries it.
login_block_enumerating(s, acc_no, pin_str) ==
    /\ ScriptRun
    /\ session_state[s] = None
    /\ UNCHANGED <<data, disk, faults>>
    /\ IF acc_no = <<>> \/ ~isdigit(pin_str)
       THEN /\ Show("login", "Enter a valid account number and numeric PIN.")
            /\ UNCHANGED session_state
       ELSE IF find_by_acc(data, acc_no) = 0
       THEN /\ Show("login", "Account not found.")
            /\ UNCHANGED session_state
       ELSE IF find_user(data, acc_no, int(pin_str)) # 0
       THEN /\ session_state' =
                   [session_state EXCEPT ![s] = [acc |-> acc_no, pin |-> int(pin_str)]]
            /\ Show("login", "Logged in successfully.")
       ELSE /\ Show("login", "Invalid account number or PIN.")
            /\ UNCHANGED session_state

\* login_block, shown by sidebar to a session that is not logged in.
login_block(s, acc_no, pin_str) ==
    /\ ScriptRun
    /\ session_state[s] = None
    /\ UNCHANGED <<data, disk, faults>>
    /\ IF acc_no = <<>> \/ ~isdigit(pin_str)
       THEN /\ Show("login", "Enter a valid account number and numeric PIN.")
            /\ UNCHANGED session_state
       ELSE IF find_user(data, acc_no, int(pin_str)) # 0
       THEN /\ session_state' =
                   [session_state EXCEPT ![s] = [acc |-> acc_no, pin |-> int(pin_str)]]
            /\ Show("login", "Logged in successfully.")
       ELSE /\ Show("login", "Invalid account number or PIN.")
            /\ UNCHANGED session_state

\* The Logout button of sidebar.
logout(s) ==
    /\ ScriptRun
    /\ session_state[s] # None
    /\ session_state' = [session_state EXCEPT ![s] = None]
    /\ Show("logout", "")
    /\ UNCHANGED <<data, disk, faults>>

----------------------------------------------------------------------------
(* UI sections *)

\* ui_create_account checking the pin as login_block does: numeric, any length.
form_error_any_pin(form) ==
    IF form.name = <<>> \/ form.email = <<>> THEN "Name and Email are required."
    ELSE IF form.age < MinAge THEN "You must be at least 18 to open an account."
    ELSE IF ~isdigit(form.phone) \/ Len(form.phone) # PhoneLen THEN "Phone must be 10 digits."
    ELSE IF ~isdigit(form.pin) THEN "PIN must be a 4-digit number."
    ELSE ""

\* The validation of ui_create_account: the st.error shown, "" when the form
\* passes.
form_error(form) ==
    IF form.name = <<>> \/ form.email = <<>> THEN "Name and Email are required."
    ELSE IF form.age < MinAge THEN "You must be at least 18 to open an account."
    ELSE IF ~isdigit(form.phone) \/ Len(form.phone) # PhoneLen THEN "Phone must be 10 digits."
    ELSE IF ~isdigit(form.pin) \/ Len(form.pin) # PinLen THEN "PIN must be a 4-digit number."
    ELSE ""

ui_create_account(form) ==
    /\ ScriptRun
    /\ UNCHANGED session_state
    /\ LET error == form_error(form)
       IN IF error # ""
          THEN /\ Show("create", error)
               /\ UNCHANGED <<data, disk, faults>>
          ELSE /\ Len(data) < MaxAccounts
               /\ \E acc_no \in generate_account_no, w \in PersistOutcomes :
                      Commit(Append(data, info(form, acc_no)), w, "create", "Account created!")

\* The checks of the earlier Deposit_money (lines 51-56): amount < 0.
deposit_error_legacy(amount) ==
    IF amount < 0 THEN "Amount must be positive."
    ELSE IF amount > AmountCap THEN "Amount is greater than 10,000."
    ELSE ""

\* The checks of the amount in ui_deposit: the st.error shown, "" when the
\* amount passes.
deposit_error(amount) ==
    IF amount <= 0 THEN "Amount must be positive."
    ELSE IF amount > AmountCap THEN "Amount is greater than 10,000."
    ELSE ""

\* user["balance"] = int(amount), an assignment in place of +=.
deposited_assigned(balance, amount) == amount

\* user["balance"] += int(amount)
deposited(balance, amount) == balance + amount

\* ui_withdraw without the comparison with the balance.
withdraw_error_unchecked(amount, balance) ==
    IF amount <= 0 THEN "Amount must be positive."
    ELSE IF amount > AmountCap THEN "Amount is greater than 10,000."
    ELSE ""

\* ui_withdraw comparing with the cap where it should compare with the balance.
withdraw_error_cap_twice(amount, balance) ==
    IF amount <= 0 THEN "Amount must be positive."
    ELSE IF amount > AmountCap THEN "Amount is greater than 10,000."
    ELSE IF amount > AmountCap THEN "Insufficient balance."
    ELSE ""

\* The checks of the amount in ui_withdraw.
withdraw_error(amount, balance) ==
    IF amount <= 0 THEN "Amount must be positive."
    ELSE IF amount > AmountCap THEN "Amount is greater than 10,000."
    ELSE IF amount > balance THEN "Insufficient balance."
    ELSE ""

\* user["balance"] -= int(amount)
withdrawn(balance, amount) == balance - amount

ui_deposit(s, amount) ==
    /\ ScriptRun
    /\ \/ NotLoggedIn(s, "deposit")
       \/ SessionExpired(s, "deposit")
       \/ /\ session_state[s] # None
          /\ SessionUser(s) # 0
          /\ UNCHANGED session_state
          /\ IF deposit_error(amount) # ""
             THEN /\ Show("deposit", deposit_error(amount))
                  /\ UNCHANGED <<data, disk, faults>>
             ELSE /\ data[SessionUser(s)]["balance"] + amount <= MaxBalance
                  /\ \E w \in PersistOutcomes :
                         Commit([data EXCEPT ![SessionUser(s)]["balance"] =
                                     deposited(@, amount)],
                                w, "deposit", "Money deposited successfully.")

ui_withdraw(s, amount) ==
    /\ ScriptRun
    /\ \/ NotLoggedIn(s, "withdraw")
       \/ SessionExpired(s, "withdraw")
       \/ /\ session_state[s] # None
          /\ SessionUser(s) # 0
          /\ UNCHANGED session_state
          /\ IF withdraw_error(amount, data[SessionUser(s)]["balance"]) # ""
             THEN /\ Show("withdraw", withdraw_error(amount, data[SessionUser(s)]["balance"]))
                  /\ UNCHANGED <<data, disk, faults>>
             ELSE \E w \in PersistOutcomes :
                      Commit([data EXCEPT ![SessionUser(s)]["balance"] =
                                  withdrawn(@, amount)],
                             w, "withdraw", "Money withdrawn successfully.")

ui_view_details(s) ==
    /\ ScriptRun
    /\ \/ NotLoggedIn(s, "view")
       \/ SessionExpired(s, "view")
       \/ /\ session_state[s] # None
          /\ SessionUser(s) # 0
          /\ Show("view", "Account Summary")
          /\ UNCHANGED <<data, disk, session_state, faults>>

\* newData taking name and email from the form even when they are left empty.
newData_overwriting(user, form) ==
    [k \in Keys |->
        CASE k = "name" -> form.name
          [] k = "email" -> form.email
          [] k = "age" -> IF isdigit(form.age) THEN int(form.age) ELSE user["age"]
          [] k = "phone" -> IF isdigit(form.phone) THEN int(form.phone) ELSE user["phone"]
          [] k = "pin" -> IF isdigit(form.pin) THEN int(form.pin) ELSE user["pin"]
          [] k = "AccountNo." -> user["AccountNo."]
          [] k = "balance" -> user["balance"]]

\* The dict literal "newData" of ui_update_details.
newData(user, form) ==
    [k \in Keys |->
        CASE k = "name" -> IF form.name # <<>> THEN form.name ELSE user["name"]
          [] k = "email" -> IF form.email # <<>> THEN form.email ELSE user["email"]
          [] k = "age" -> IF isdigit(form.age) THEN int(form.age) ELSE user["age"]
          [] k = "phone" -> IF isdigit(form.phone) THEN int(form.phone) ELSE user["phone"]
          [] k = "pin" -> IF isdigit(form.pin) THEN int(form.pin) ELSE user["pin"]
          [] k = "AccountNo." -> user["AccountNo."]
          [] k = "balance" -> user["balance"]]

ui_update_details(s, form) ==
    /\ ScriptRun
    /\ \/ NotLoggedIn(s, "update")
       \/ SessionExpired(s, "update")
       \/ /\ session_state[s] # None
          /\ SessionUser(s) # 0
          /\ UNCHANGED session_state
          /\ \E w \in PersistOutcomes :
                 Commit([data EXCEPT ![SessionUser(s)] = newData(@, form)],
                        w, "update", "Details updated successfully.")

\* A removal by value that drops every item equal to x, not just the first.
remove_every(d, x) ==
    LET RECURSIVE keep(_)
        keep(t) == IF t = <<>> THEN <<>>
                   ELSE IF Head(t) = x THEN keep(Tail(t))
                   ELSE <<Head(t)>> \o keep(Tail(t))
    IN keep(d)

\* list.remove(x): the first item equal to x is removed.
remove(d, x) ==
    LET i == CHOOSE i \in 1..Len(d) : d[i] = x /\ \A j \in 1..(i - 1) : d[j] # x
    IN SubSeq(d, 1, i - 1) \o SubSeq(d, i + 1, Len(d))

ui_delete_account(s) ==
    /\ ScriptRun
    /\ \/ NotLoggedIn(s, "delete")
       \/ SessionExpired(s, "delete")
       \/ /\ session_state[s] # None
          /\ SessionUser(s) # 0
          /\ \E w \in PersistOutcomes :
                 /\ Commit(remove(data, data[SessionUser(s)]), w,
                           "delete", "Account deleted successfully.")
                 /\ session_state' =
                        IF w = "written" THEN [session_state EXCEPT ![s] = None]
                        ELSE session_state

\* Bank.reload, then the check of the page "Reload DB" that the session's
\* account still exists.  json.load raises on a document that does not parse.
reload_db(s) ==
    /\ ScriptRun
    /\ UNCHANGED <<disk, faults>>
    /\ IF disk.state = "corrupt"
       THEN /\ Show("reload", "JSONDecodeError")
            /\ UNCHANGED <<data, session_state>>
       ELSE /\ data' = IF disk.state = "valid" THEN json_load(disk.doc) ELSE data
            /\ IF session_state[s] # None
                  /\ find_user(data', session_state[s].acc, session_state[s].pin) = 0
               THEN /\ session_state' = [session_state EXCEPT ![s] = None]
                    /\ Show("reload", "Your account was not found after reload. Logging out.")
               ELSE /\ UNCHANGED session_state
                    /\ Show("reload", "Reloaded data from disk.")

----------------------------------------------------------------------------
(* The single-threaded program: one script run at a time *)

Idle == [pc |-> "idle", user |-> 0, amount |-> 0, balance |-> 0, ops |-> 0]

\* An account that an earlier run of the program created and credited.
EarlierAccount ==
    [info(GoodForm, CHOOSE a \in AccountNoSamples : a[1] = "a") EXCEPT !["balance"] = 5000]

\* The data.json the process may find when it starts: none, the document an
\* earlier run of the program wrote, or a file that does not parse.
StoredFiles ==
    { [state |-> "absent", doc |-> <<>>],
      [state |-> "valid", doc |-> json_dump(<<EarlierAccount>>)],
      [state |-> "corrupt", doc |-> <<>>] }

\* The body of class Bank: data = [] unless data.json exists and parses; an
\* exception of open or json.load is caught and printed.
load(file) == IF file.state = "valid" THEN json_load(file.doc) ELSE <<>>

\* The process has started and no session is logged in.
Init ==
    /\ disk \in StoredFiles
    /\ data = load(disk)
    /\ session_state = [s \in Sessions |-> None]
    /\ out = [op |-> "start", msg |-> ""]
    /\ faults = 0
    /\ runs = 0
    /\ threads = [s \in Sessions |-> Idle]
    /\ reported = 0

Login == \E s \in Sessions, f \in LoginForms : login_block(s, f[1], f[2])
Logout == \E s \in Sessions : logout(s)
Create == \E f \in CreateForms : ui_create_account(f)
Deposit == \E s \in Sessions, a \in Amounts : ui_deposit(s, a)
Withdraw == \E s \in Sessions, a \in Amounts : ui_withdraw(s, a)
View == \E s \in Sessions : ui_view_details(s)
Update == \E s \in Sessions, f \in UpdateForms : ui_update_details(s, f)
Delete == \E s \in Sessions : ui_delete_account(s)
Reload == \E s \in Sessions : reload_db(s)

Next ==
    \/ Login
    \/ Logout
    \/ Create
    \/ Deposit
    \/ Withdraw
    \/ View
    \/ Update
    \/ Delete
    \/ Reload

Spec == Init /\ [][Next]_vars

----------------------------------------------------------------------------
(* The multi-threaded host: every session's script run is a thread of the  *)
(* one process, and the handlers take no lock.  A thread can be preempted  *)
(* between the bytecodes of  user["balance"] += int(amount),  which reads  *)
(* the balance, adds, and stores the result.                               *)

\* Both sessions are logged in to the account found at start.
InitThreads ==
    /\ disk = [state |-> "valid", doc |-> json_dump(<<EarlierAccount>>)]
    /\ data = load(disk)
    /\ session_state =
           [s \in Sessions |->
               [acc |-> EarlierAccount["AccountNo."], pin |-> EarlierAccount["pin"]]]
    /\ out = [op |-> "login", msg |-> "Logged in successfully."]
    /\ faults = 0
    /\ runs = 0
    /\ threads = [s \in Sessions |-> Idle]
    /\ reported = 0

\* ui_deposit / ui_withdraw up to the checks of the amount: the thread keeps
\* the reference "user" and goes on to the update of the balance.
handler_begin(s, op, amount) ==
    LET invalid ==
            IF op = "deposit" THEN deposit_error(amount)
            ELSE withdraw_error(amount, data[SessionUser(s)]["balance"])
    IN /\ threads[s].pc = "idle"
       /\ threads[s].ops < MaxThreadOps
       /\ SessionUser(s) # 0
       /\ IF invalid # ""
          THEN /\ Show(op, invalid)
               /\ threads' = [threads EXCEPT ![s].ops = @ + 1]
          ELSE /\ threads' = [threads EXCEPT ![s] =
                      [pc |-> "read", user |-> SessionUser(s),
                       amount |-> IF op = "deposit" THEN amount ELSE 0 - amount,
                       balance |-> 0, ops |-> @.ops]]
               /\ UNCHANGED out
       /\ UNCHANGED <<data, disk, session_state, faults, runs, reported>>

\* user["balance"] is read.
balance_read(s) ==
    /\ threads[s].pc = "read"
    /\ threads' = [threads EXCEPT ![s].pc = "write",
                                  ![s].balance = data[threads[s].user]["balance"]]
    /\ UNCHANGED <<data, disk, session_state, out, faults, runs, reported>>

\* The sum (or difference) is stored in user["balance"].
balance_write(s) ==
    /\ threads[s].pc = "write"
    /\ data' = [data EXCEPT ![threads[s].user]["balance"] =
                    threads[s].balance + threads[s].amount]
    /\ threads' = [threads EXCEPT ![s].pc = "persist"]
    /\ UNCHANGED <<disk, session_state, out, faults, runs, reported>>

\* Bank.update_data()
thread_update_data(s) ==
    /\ threads[s].pc = "persist"
    /\ disk' = update_data(data, "written")
    /\ threads' = [threads EXCEPT ![s].pc = "report"]
    /\ UNCHANGED <<data, session_state, out, faults, runs, reported>>

\* st.success(...): the operation is reported as done.
thread_report(s) ==
    /\ threads[s].pc = "report"
    /\ Show(IF threads[s].amount > 0 THEN "deposit" ELSE "withdraw",
            IF threads[s].amount > 0 THEN "Money deposited successfully."
            ELSE "Money withdrawn successfully.")
    /\ reported' = reported + threads[s].amount
    /\ threads' = [threads EXCEPT ![s] = [Idle EXCEPT !.ops = threads[s].ops + 1]]
    /\ UNCHANGED <<data, disk, session_state, faults, runs>>

Begin == \E s \in Sessions, op \in {"deposit", "withdraw"}, a \in Amounts : handler_begin(s, op, a)
BalanceRead == \E s \in Sessions : balance_read(s)
BalanceWrite == \E s \in Sessions : balance_write(s)
ThreadUpdateData == \E s \in Sessions : thread_update_data(s)
ThreadReport == \E s \in Sessions : thread_report(s)

NextThreads ==
    \/ Begin
    \/ BalanceRead
    \/ BalanceWrite
    \/ ThreadUpdateData
    \/ ThreadReport

SpecThreads == InitThreads /\ [][NextThreads]_vars

----------------------------------------------------------------------------
(* Properties *)

SuccessOfMutation ==
    { [op |-> "create", msg |-> "Account created!"],
      [op |-> "deposit", msg |-> "Money deposited successfully."],
      [op |-> "withdraw", msg |-> "Money withdrawn successfully."],
      [op |-> "update", msg |-> "Details updated successfully."],
      [op |-> "delete", msg |-> "Account deleted successfully."] }

\* C1: in every state reached by creating, depositing, withdrawing, updating
\* and deleting, every record of the ledger has a balance >= 0.
BalanceNonNegative == \A i \in 1..Len(data) : data[i]["balance"] >= 0

\* A withdrawal has emptied an account.
BalanceNonNegativeWitness ==
    /\ out = [op |-> "withdraw", msg |-> "Money withdrawn successfully."]
    /\ \E i \in 1..Len(data) : data[i]["balance"] = 0

\* C2: no two records of the ledger share an account number.
AccountNumberUnique ==
    \A i, j \in 1..Len(data) : i # j => data[i]["AccountNo."] # data[j]["AccountNo."]

\* C3: when a mutating operation has reported success, data.json holds the
\* document of the in-memory ledger, and reading it gives that ledger back.
PersistedAfterSuccess ==
    out \in SuccessOfMutation =>
        /\ disk.state = "valid"
        /\ disk.doc = json_dump(data)
        /\ json_load(disk.doc) = data

\* A deposit has been reported and the ledger is not empty.
PersistedAfterSuccessWitness ==
    /\ out = [op |-> "deposit", msg |-> "Money deposited successfully."]
    /\ disk.state = "valid"
    /\ Len(data) = 2

\* C4: a run in which the write of data.json fails leaves the in-memory
\* ledger as it was before the run (the mutation is rolled back).
FailedPersistRolledBack == [][faults' > faults => data' = data]_vars

\* C5: in the multi-threaded host, once every thread has finished, the balance
\* in memory and on disk is the initial balance plus the reported deposits
\* minus the reported withdrawals.
NoLostUpdate ==
    (\A s \in Sessions : threads[s].pc = "idle") =>
        /\ data[1]["balance"] = EarlierAccount["balance"] + reported
        /\ json_load(disk.doc)[1]["balance"] = EarlierAccount["balance"] + reported

\* The session's stored pair matches a record.
Authenticated(s) == session_state[s] # None /\ SessionUser(s) # 0

\* In the properties of single runs below, out'.op names the page handler that
\* ran in the step.

\* C6: a withdrawal by an authenticated session of an amount within the cap
\* and above the balance shows the insufficient-balance error and changes
\* neither the ledger nor data.json.
WithdrawAboveBalanceRejected ==
    [][out'.op = "withdraw" =>
          \A s \in Sessions, a \in Amounts :
              ( /\ Authenticated(s)
                /\ 1 <= a
                /\ a <= 10000
                /\ a > data[SessionUser(s)]["balance"]
                /\ ui_withdraw(s, a) )
              => /\ out'.msg = "Insufficient balance."
                 /\ data' = data
                 /\ disk' = disk]_vars

\* A withdrawal of more than the 5000 an account holds has been refused.
WithdrawAboveBalanceWitness ==
    /\ out = [op |-> "withdraw", msg |-> "Insufficient balance."]
    /\ \E s \in Sessions : Authenticated(s) /\ data[SessionUser(s)]["balance"] = 5000

\* C7: a deposit of a that is reported as done has 1 <= a <= 10000, adds
\* exactly a to the balance of the session's record and changes no other field
\* and no other record.
DepositAddsAmount ==
    [][out' = [op |-> "deposit", msg |-> "Money deposited successfully."] =>
          \A s \in Sessions, a \in Amounts :
              ui_deposit(s, a)
              => /\ 1 <= a
                 /\ a <= 10000
                 /\ Len(data') = Len(data)
                 /\ \A i \in 1..Len(data) :
                        IF i = SessionUser(s)
                        THEN /\ data'[i]["balance"] = data[i]["balance"] + a
                             /\ \A k \in Keys \ {"balance"} : data'[i][k] = data[i][k]
                        ELSE data'[i] = data[i]]_vars

\* The third run deposited into the account that the first run created beside
\* the earlier one: 10000 into a balance of zero gives 10000.
DepositAddsAmountWitness ==
    /\ out = [op |-> "deposit", msg |-> "Money deposited successfully."]
    /\ runs = 3
    /\ Len(data) = 2
    /\ data[1] = EarlierAccount
    /\ data[2]["balance"] = 10000

\* C8: a deposit or withdrawal of an amount <= 0 or > 10000 changes neither
\* the ledger nor data.json, and an authenticated session is shown a
\* validation error.
AmountOutOfRangeRejected ==
    [][out'.op \in {"deposit", "withdraw"} =>
          \A s \in Sessions, a \in Amounts :
              ( /\ a <= 0 \/ a > 10000
                /\ ui_deposit(s, a) \/ ui_withdraw(s, a) )
              => /\ data' = data
                 /\ disk' = disk
                 /\ Authenticated(s) =>
                        out'.msg \in {"Amount must be positive.",
                                      "Amount is greater than 10,000."}]_vars

\* A withdrawal above the cap has been refused by a session whose account
\* holds money.
AmountOutOfRangeWitness ==
    /\ out = [op |-> "withdraw", msg |-> "Amount is greater than 10,000."]
    /\ \E s \in Sessions : Authenticated(s) /\ data[SessionUser(s)]["balance"] > 0

\* The text has exactly n characters, all of them digits.
ExactlyDigits(text, n) == Len(text) = n /\ \A i \in 1..Len(text) : text[i] \in Digits

\* The creation constraints of the data model.
FormInvalid(f) ==
    \/ f.name = <<>>
    \/ f.email = <<>>
    \/ f.age < 18
    \/ ~ExactlyDigits(f.phone, 10)
    \/ ~ExactlyDigits(f.pin, 4)

CreateErrors ==
    { "Name and Email are required.", "You must be at least 18 to open an account.",
      "Phone must be 10 digits.", "PIN must be a 4-digit number." }

SuppliesInvalid(f) ==
    \/ f.age # <<>> /\ (~isdigit(f.age) \/ int(f.age) < 18)
    \/ f.phone # <<>> /\ ~ExactlyDigits(f.phone, 10)
    \/ f.pin # <<>> /\ ~ExactlyDigits(f.pin, 4)

\* C10: an update that fills in an age below 18, a phone that is not 10
\* digits or a pin that is not 4 digits is not reported as done and leaves the
\* ledger unchanged.
UpdateValidated ==
    [][out'.op = "update" =>
          \A s \in Sessions, f \in UpdateForms :
              (SuppliesInvalid(f) /\ Authenticated(s) /\ ui_update_details(s, f))
              => /\ out'.msg # "Details updated successfully."
                 /\ data' = data]_vars

\* What an update by session s with form f may not touch: the length of the
\* list, the other records, and in the session's record the account number,
\* the balance and every field the form leaves empty.
UpdateKeeps(s, f) ==
    /\ Len(data') = Len(data)
    /\ \A i \in 1..Len(data) :
           IF i = SessionUser(s)
           THEN /\ data'[i]["AccountNo."] = data[i]["AccountNo."]
                /\ data'[i]["balance"] = data[i]["balance"]
                /\ \A k \in UpdateFields : f[k] = <<>> => data'[i][k] = data[i][k]
           ELSE data'[i] = data[i]

\* C11: an update by a logged-in session leaves the account number and the
\* balance of its record as they were, keeps every field whose input is left
\* empty, and changes no other record, whatever fields the form fills in
\* (no step that breaks this is an update by that session with that form).
UpdateFrame ==
    [][out'.op = "update" =>
          \A s \in Sessions :
              Authenticated(s) =>
                  \A f \in UpdateForms :
                      UpdateKeeps(s, f) \/ ~ui_update_details(s, f)]_vars

\* An update that filled in the name only was done on the second of two
\* records: the first and the other fields of the second are as before.
UpdateFrameWitness ==
    /\ out = [op |-> "update", msg |-> "Details updated successfully."]
    /\ Len(data) = 2
    /\ data[1] = EarlierAccount
    /\ data[2] = [info(GoodForm, data[2]["AccountNo."]) EXCEPT !["name"] = FilledIn.name]

\* C12: once a session has deleted its account, the account number and pin
\* it was logged in with match no record, so that every later login or
\* operation with them fails until a create brings the number back.
DeletedCredentialsRejected ==
    [][out' = [op |-> "delete", msg |-> "Account deleted successfully."] =>
          \A s \in Sessions :
              (Authenticated(s) /\ ui_delete_account(s))
              => find_user(data', session_state[s].acc, session_state[s].pin) = 0]_vars

\* A login form that is well formed (account number filled in, numeric pin)
\* and matches no record.
LoginRefused(f) ==
    /\ f[1] # <<>>
    /\ isdigit(f[2])
    /\ find_user(data, f[1], int(f[2])) = 0

\* C13: a login that matches no record is answered with the one message
\* "Invalid account number or PIN." and changes neither the ledger, the file
\* nor any session, whether the account number is unknown or the number
\* exists and the pin is wrong.
LoginFailureUniform ==
    [][out'.op = "login" =>
          \A s \in Sessions, f \in LoginForms :
              (LoginRefused(f) /\ login_block(s, f[1], f[2]))
              => /\ out'.msg = "Invalid account number or PIN."
                 /\ data' = data /\ disk' = disk
                 /\ session_state' = session_state]_vars

\* A login was refused while the ledger held an account whose number the
\* login forms offer with a wrong pin, and another number is unknown.
LoginFailureUniformWitness ==
    /\ out = [op |-> "login", msg |-> "Invalid account number or PIN."]
    /\ \E f \in LoginForms : LoginRefused(f) /\ find_by_acc(data, f[1]) # 0
    /\ \E f \in LoginForms : LoginRefused(f) /\ find_by_acc(data, f[1]) = 0

\* C14: a reload that finds a data.json that does not parse raises nothing:
\* the in-memory ledger becomes the empty list and the page reports as usual.
ReloadFallsBackToEmpty ==
    [][(out'.op = "reload" /\ disk.state = "corrupt") =>
          /\ out'.msg # "JSONDecodeError"
          /\ data' = <<>>]_vars

\* C15: in every reachable state, writing the in-memory ledger to data.json
\* and loading the file gives the same list of records back, field for field
\* and in the same order.
RoundTrip == load(update_data(data, "written")) = data

\* A reload has read the file written after a second, different record was
\* appended, and the ledger is what it was before the reload.
RoundTripWitness ==
    /\ out = [op |-> "reload", msg |-> "Reloaded data from disk."]
    /\ disk = [state |-> "valid", doc |-> json_dump(data)]
    /\ Len(data) = 2
    /\ data[1] # data[2]

CreatedDigitsKept ==
    [][out' = [op |-> "create", msg |-> "Account created!"] =>
          /\ Len(IntText(data'[Len(data')]["pin"])) = PinLen
          /\ Len(IntText(data'[Len(data')]["phone"])) = PhoneLen]_vars

\* C18: the balance of an account is the sum of its deposits reported as
\* done minus the sum of its withdrawals reported as done, so the balance of
\* a record that stays in place changes only in a step that reports a
\* deposit or a withdrawal as done.
BalanceFollowsReports ==
    [][\A i \in 1..Len(data) :
          ( /\ Len(data') = Len(data)
            /\ data'[i]["AccountNo."] = data[i]["AccountNo."]
            /\ data'[i]["balance"] # data[i]["balance"] )
          => out'.msg \in {"Money deposited successfully.",
                           "Money withdrawn successfully."}]_vars

\* The pages that act on the account of the session.
AccountPages == {"deposit", "withdraw", "view", "update", "delete"}

\* The step is a run of one of the account pages by session s.
OperationBy(s) ==
    \/ out'.op = "deposit" /\ \E a \in Amounts : ui_deposit(s, a)
    \/ out'.op = "withdraw" /\ \E a \in Amounts : ui_withdraw(s, a)
    \/ out'.op = "view" /\ ui_view_details(s)
    \/ out'.op = "update" /\ \E f \in UpdateForms : ui_update_details(s, f)
    \/ out'.op = "delete" /\ ui_delete_account(s)

\* C19: an account page changes the ledger only while some session's stored
\* pair matches a record; the operation of a logged-in session whose pair
\* matches no record any more changes neither the ledger nor the file and
\* logs the session out.
SessionValidity ==
    [][out'.op \in AccountPages =>
          /\ data' # data => \E s \in Sessions : Authenticated(s)
          /\ \A s \in Sessions :
                 (session_state[s] # None /\ SessionUser(s) = 0 /\ OperationBy(s))
                 => /\ data' = data /\ disk' = disk
                    /\ session_state'[s] = None]_vars

\* A session found itself expired on the withdraw page after the pin of its
\* account had been changed by an update.
SessionValidityWitness ==
    /\ out = [op |-> "withdraw", msg |-> "Session expired. Please login again."]
    /\ data = <<[EarlierAccount EXCEPT !["pin"] = int(FilledIn.pin)]>>

====
